---- MODULE Spec2Model ----
(***************************************************************************)
(* Model of the web application security audit tool.                       *)
(*                                                                         *)
(*   src/cli.py      calculate_security_score, get_query_params, run_scan  *)
(*   src/crawler.py  crawl                                                 *)
(*   src/db.py       the scans and findings tables and their operations    *)
(*   src/app.py      start_scan, run_scan_thread                           *)
(*   src/scanners/   the passive and active probes                         *)
(*                                                                         *)
(* Three specifications share the module:                                  *)
(*   SpecScore  the scoring function applied to a stored finding list      *)
(*   SpecCrawl  the crawl loop, one iteration per step                     *)
(*   Spec       scans run by the command line and by the web threads       *)
(***************************************************************************)
EXTENDS Integers, Sequences, FiniteSets, TLC

(***************************************************************************)
(* Python strings are sequences of one-character strings.  None is a       *)
(* value different from every string.                                      *)
(***************************************************************************)
None == <<"None">>

Lowers == <<"a","b","c","d","e","f","g","h","i","j","k","l","m",
            "n","o","p","q","r","s","t","u","v","w","x","y","z">>

Uppers == <<"A","B","C","D","E","F","G","H","I","J","K","L","M",
            "N","O","P","Q","R","S","T","U","V","W","X","Y","Z">>

Digits == <<"0","1","2","3","4","5","6","7","8","9">>

IsIn(c, alphabet) == \E i \in 1..Len(alphabet) : alphabet[i] = c

IndexIn(c, alphabet) == CHOOSE i \in 1..Len(alphabet) : alphabet[i] = c

\* str.upper() on one character
UpperChar(c) == IF IsIn(c, Lowers) THEN Uppers[IndexIn(c, Lowers)] ELSE c

\* str.lower() on one character
LowerChar(c) == IF IsIn(c, Uppers) THEN Lowers[IndexIn(c, Uppers)] ELSE c

\* str.upper()
PyUpper(s) == [i \in 1..Len(s) |-> UpperChar(s[i])]

\* str.capitalize(): first character upper-cased, the others lower-cased
PyCapitalize(s) == [i \in 1..Len(s) |-> IF i = 1 THEN UpperChar(s[i]) ELSE LowerChar(s[i])]

IsSpace(c) == c = " "

\* str.strip(): leading and trailing whitespace removed
PyStrip(s) ==
  LET keep == {i \in 1..Len(s) : ~IsSpace(s[i])}
  IN  IF keep = {} THEN <<>>
      ELSE LET lo == CHOOSE i \in keep : \A j \in keep : i <= j
               hi == CHOOSE i \in keep : \A j \in keep : j <= i
           IN  SubSeq(s, lo, hi)

\* sub in s
PyContains(sub, s) ==
  \E i \in 1..(Len(s) - Len(sub) + 1) : SubSeq(s, i, i + Len(sub) - 1) = sub

\* s[a:b] for 0 <= a <= b
PySlice(s, a, b) ==
  LET hi == IF b < Len(s) THEN b ELSE Len(s)
  IN  IF a >= hi THEN <<>> ELSE SubSeq(s, a + 1, hi)

\* the value of a run of decimal digits
RECURSIVE DigitsValue(_)
DigitsValue(s) ==
  IF s = <<>> THEN 0
  ELSE 10 * DigitsValue(SubSeq(s, 1, Len(s) - 1)) + (IndexIn(s[Len(s)], Digits) - 1)

\* int(s): surrounding whitespace is dropped, one sign is allowed, the rest
\* must be decimal digits (an underscore may only stand between two digits,
\* which a slice of two characters cannot hold).  ok = FALSE is ValueError.
PyInt(s) ==
  LET t    == PyStrip(s)
      sgn  == IF t # <<>> /\ t[1] \in {"+", "-"} THEN t[1] ELSE ""
      body == IF sgn = "" THEN t ELSE SubSeq(t, 2, Len(t))
      good == body # <<>> /\ \A i \in 1..Len(body) : IsIn(body[i], Digits)
  IN  IF ~good THEN [ok |-> FALSE, val |-> 0]
      ELSE [ok |-> TRUE,
            val |-> IF sgn = "-" THEN 0 - DigitsValue(body) ELSE DigitsValue(body)]

\* x or default, for x a string or None
PyOr(x, default) == IF x = None \/ x = <<>> THEN default ELSE x

(***************************************************************************)
(* The scoring function, src/cli.py calculate_security_score.  A stored    *)
(* finding is a row of the findings table; the model keeps the columns the *)
(* program reads back: page, type, severity (f[4]), owasp_mapping (f[5]).  *)
(***************************************************************************)
Row(page, type, severity, owasp) ==
  [page |-> page, type |-> type, severity |-> severity, owasp_mapping |-> owasp]

sCritical == <<"C","r","i","t","i","c","a","l">>
sHigh     == <<"H","i","g","h">>
sMedium   == <<"M","e","d","i","u","m">>
sLow      == <<"L","o","w">>
sInfo     == <<"I","n","f","o">>

WeightCritical == 40
WeightHigh == 25
WeightMedium == 15
WeightLow == 5
WeightInfo == 2
WeightDefault == 10

severity_weights(severity) ==
  CASE severity = sCritical -> WeightCritical
    [] severity = sHigh     -> WeightHigh
    [] severity = sMedium   -> WeightMedium
    [] severity = sLow      -> WeightLow
    [] severity = sInfo     -> WeightInfo
    [] OTHER                -> WeightDefault

\* line 44
NormSeverity(f) == PyStrip(PyCapitalize(PyOr(f.severity, sLow)))

\* line 45
NormOwasp(f) == PyStrip(PyUpper(PyOr(f.owasp_mapping, <<>>)))

BonusLow == 10
BonusMid == 5

\* lines 47-58: the OWASP-based extra deduction of one finding
OwaspBonus(f) ==
  LET owasp == NormOwasp(f)
  IN  IF PyContains(<<"A","0">>, owasp)
      THEN LET num == PyInt(PySlice(owasp, 2, 4))
           IN  IF ~num.ok THEN 0
               ELSE IF 1 <= num.val /\ num.val <= 5 THEN BonusLow
               ELSE IF 6 <= num.val /\ num.val <= 10 THEN BonusMid
               ELSE 0
      ELSE 0

\* line 60: what one finding adds to total_deduction
Deduction(f) == severity_weights(NormSeverity(f)) + OwaspBonus(f)

RECURSIVE TotalDeduction(_)
TotalDeduction(findings) ==
  IF findings = <<>> THEN 0
  ELSE Deduction(Head(findings)) + TotalDeduction(Tail(findings))

HasSeverity(findings, sev) ==
  \E i \in 1..Len(findings) : NormSeverity(findings[i]) = sev

ManyFindings == 10
ComplexityPenalty == 5
SafetyBonus == 10
ScoreFloor == 10
ScoreCeil == 100

\* line 68 with the comparison turned round
complexity_penalty_few(findings) ==
  IF Len(findings) <= ManyFindings THEN ComplexityPenalty ELSE 0

\* line 68
complexity_penalty(findings) == IF Len(findings) > ManyFindings THEN ComplexityPenalty ELSE 0

\* line 69
safety_bonus(findings) ==
  IF ~(HasSeverity(findings, sHigh) \/ HasSeverity(findings, sCritical))
  THEN SafetyBonus ELSE 0

Max(a, b) == IF a >= b THEN a ELSE b
Min(a, b) == IF a <= b THEN a ELSE b

\* line 72 with the lower clamp left out
ClampNoFloor(score) == Min(ScoreCeil, score)

\* line 72: max(10, min(100, score))
Clamp(score) == Max(ScoreFloor, Min(ScoreCeil, score))

\* lines 28-74, on the rows get_findings_for_scan returned
ScoreOf(findings) ==
  IF findings = <<>> THEN ScoreCeil
  ELSE Clamp(ScoreCeil - TotalDeduction(findings)
             - complexity_penalty(findings) + safety_bonus(findings))

(***************************************************************************)
(* URLs.  A URL string is kept in the split form urlparse gives it, the    *)
(* query as the sequence of its name=value pairs; the empty string is the  *)
(* URL whose parts are all empty.  Two URLs are the same string exactly    *)
(* when all parts agree, so a URL with a fragment is a different string    *)
(* from the same URL without it.                                           *)
(***************************************************************************)
Url(scheme, netloc, path, query, frag) ==
  [scheme |-> scheme, netloc |-> netloc, path |-> path, query |-> query, frag |-> frag]

EmptyUrl == Url("", "", "", <<>>, "")

\* urlparse(u).netloc
Netloc(u) == u.netloc

\* urljoin(base, href) for hrefs whose path, when present, is absolute
urljoin(base, href) ==
  IF base = EmptyUrl THEN href
  ELSE IF href = EmptyUrl THEN base
  ELSE IF href.scheme # "" /\ href.scheme # base.scheme THEN href
  ELSE IF href.netloc # "" THEN [href EXCEPT !.scheme = base.scheme]
  ELSE IF href.path = ""
       THEN Url(base.scheme, base.netloc, base.path,
                IF href.query # <<>> THEN href.query ELSE base.query, href.frag)
       ELSE Url(base.scheme, base.netloc, href.path, href.query, href.frag)

\* requests.get raises MissingSchema or InvalidSchema on anything but http(s)
Fetchable(u) == u.scheme \in {"http", "https"}

(***************************************************************************)
(* The crawl loop, src/crawler.py crawl.  A crawl state holds the locals   *)
(* target, max_pages, visited, to_visit and pages (a page is kept as its   *)
(* URL), and four records of what happened: fetched lists the URLs handed  *)
(* to requests.get, links the joined links of the pages fetched, enq the   *)
(* URLs added to to_visit, and last the outcome of the latest iteration.   *)
(***************************************************************************)
CrawlStart(target, max_pages) ==
  [pc |-> "loop", target |-> target, max_pages |-> max_pages,
   visited |-> {}, to_visit |-> <<target>>, pages |-> <<>>,
   fetched |-> <<>>, links |-> {}, enq |-> {}, last |-> "none"]

\* line 10 with the page cap left out
CrawlCondNoCap(c) == c.to_visit # <<>>

\* line 10: the loop condition
CrawlCond(c) == c.to_visit # <<>> /\ Len(c.pages) < c.max_pages

\* line 19: the links of a page, each href joined to the page's URL
JoinAll(url, hrefs) == [i \in 1..Len(hrefs) |-> urljoin(url, hrefs[i])]

RECURSIVE SelectSeqBy(_, _)
SelectSeqBy(s, target) ==
  IF s = <<>> THEN <<>>
  ELSE IF Netloc(Head(s)) = Netloc(target)
       THEN <<Head(s)>> \o SelectSeqBy(Tail(s), target)
       ELSE SelectSeqBy(Tail(s), target)

\* line 20 with the filter left out
NoFilter(links, target) == links

\* line 20: the links kept for the frontier
SameHost(links, target) == SelectSeqBy(links, target)

\* line 12: url in visited
Seen(c, url) == url \in c.visited

\* lines 23-25 changed to put the URL back on the frontier for another try
RetryOnError(c, url) ==
  [c EXCEPT !.to_visit = Append(c.to_visit, url),
            !.visited = c.visited \ {url},
            !.last = "fail"]

\* lines 23-25: the error is printed and the loop goes on
SkipOnError(c, url) == [c EXCEPT !.last = "fail"]

\* lines 11-25: one iteration.  ok is whether the try block ran to its end;
\* hrefs are the href attributes of the anchors of the fetched page.
CrawlIter(c, ok, hrefs) ==
  LET url  == Head(c.to_visit)
      rest == Tail(c.to_visit)
  IN  IF Seen(c, url)
      THEN [c EXCEPT !.to_visit = rest, !.last = "dup"]
      ELSE LET c1 == [c EXCEPT !.to_visit = rest,
                               !.visited = c.visited \cup {url},
                               !.fetched = Append(c.fetched, url)]
           IN  IF ok /\ Fetchable(url)
               THEN LET found == JoinAll(url, hrefs)
                        keep  == SameHost(found, c.target)
                    IN  [c1 EXCEPT !.to_visit = rest \o keep,
                                   !.links = c.links \cup {found[i] : i \in 1..Len(found)},
                                   !.enq = c.enq \cup {keep[i] : i \in 1..Len(keep)},
                                   !.pages = Append(c.pages, url),
                                   !.last = "ok"]
               ELSE SkipOnError(c1, url)

(***************************************************************************)
(* The probes, src/scanners.  Each probe sends its own request; the model  *)
(* gives a probe the response it received, a record                        *)
(*   up          FALSE when requests.get raised                            *)
(*   headers     the security headers present in the response              *)
(*   cookies     the cookies set, each with its Secure and HttpOnly flags  *)
(*   http_assets the number of http:// URLs in the body                    *)
(*   keyword     whether the body holds one of the debug keywords          *)
(*   server      the product the Server header names, "" without one       *)
(*   sqli        the payloads (1..3) answered with an SQL error text       *)
(*   reflects    whether the XSS payload comes back in the body            *)
(*   redirects   whether Location carries the injected URL                 *)
(***************************************************************************)
Str_A05      == <<"A","0","5",":","2","0","2","1">>
Str_A02      == <<"A","0","2",":","2","0","2","1">>
Str_A01      == <<"A","0","1",":","2","0","2","1">>
Str_A03      == <<"A","0","3",":","2","0","2","1">>
\* the two long mappings, their dash written as -
Str_A01long  == Str_A01 \o <<" ","-"," ","B","r","o","k","e","n"," ","A","c","c","e","s","s"," ","C","o","n","t","r","o","l">>
Str_A05long  == Str_A05 \o <<" ","-"," ","S","e","c","u","r","i","t","y"," ","M","i","s","c","o","n","f","i","g","u","r","a","t","i","o","n">>

\* src/scanners/headers.py lines 11-16, in the order the dict is walked
\* lines 11-16 with every header rated Medium
ExpectedHeadersMedium ==
  << [h |-> "Content-Security-Policy",   sev |-> sMedium],
     [h |-> "X-Frame-Options",           sev |-> sMedium],
     [h |-> "Strict-Transport-Security", sev |-> sMedium],
     [h |-> "X-Content-Type-Options",    sev |-> sMedium] >>

ExpectedHeaders ==
  << [h |-> "Content-Security-Policy",   sev |-> sHigh],
     [h |-> "X-Frame-Options",           sev |-> sMedium],
     [h |-> "Strict-Transport-Security", sev |-> sHigh],
     [h |-> "X-Content-Type-Options",    sev |-> sMedium] >>

AllHeaders == {ExpectedHeaders[i].h : i \in 1..Len(ExpectedHeaders)}

RECURSIVE MissingHeaderRows(_, _, _)
MissingHeaderRows(url, resp, i) ==
  IF i > Len(ExpectedHeaders) THEN <<>>
  ELSE (IF ExpectedHeaders[i].h \notin resp.headers
        THEN <<Row(url, "Missing Header", ExpectedHeaders[i].sev, Str_A05)>>
        ELSE <<>>) \o MissingHeaderRows(url, resp, i + 1)

\* src/scanners/headers.py lines 3-28
check_security_headers(url, resp) ==
  IF ~resp.up THEN <<>> ELSE MissingHeaderRows(url, resp, 1)

RECURSIVE InsecureCookieRows(_, _)
InsecureCookieRows(url, cookies) ==
  IF cookies = <<>> THEN <<>>
  ELSE (IF ~Head(cookies).secure
        THEN <<Row(url, "Insecure Cookie", sMedium, Str_A05)>>
        ELSE <<>>) \o InsecureCookieRows(url, Tail(cookies))

\* src/scanners/insecure_cookies.py lines 4-40.  response.headers.get gives
\* one string, the Set-Cookie values joined, or "" without any cookie; the
\* string is searched once for HttpOnly.
check_insecure_cookies(url, resp) ==
  IF ~resp.up THEN <<>>
  ELSE InsecureCookieRows(url, resp.cookies)
       \o (IF ~(\E i \in 1..Len(resp.cookies) : resp.cookies[i].httponly)
           THEN <<Row(url, "Insecure Cookie", sMedium, Str_A05)>>
           ELSE <<>>)

\* src/scanners/mixed_content.py lines 5-25
check_mixed_content(url, resp) ==
  IF url.scheme # "https" THEN <<>>
  ELSE IF ~resp.up THEN <<>>
  ELSE IF resp.http_assets > 0 THEN <<Row(url, "Mixed Content", sMedium, Str_A02)>>
  ELSE <<>>

KnownServers == {"apache", "nginx", "iis", "tomcat"}

\* src/scanners/info_disclosure_scan.py lines 3-48
check_info_disclosure(url, resp) ==
  IF ~resp.up THEN <<>>
  ELSE (IF resp.keyword
        THEN <<Row(url, "Information Disclosure", sMedium, Str_A01long)>> ELSE <<>>)
       \o (IF resp.server \in KnownServers
           THEN <<Row(url, "Information Disclosure", sLow, Str_A05long)>> ELSE <<>>)

\* parse_qs drops the pairs whose value is blank; the dict keeps one entry
\* per name, in the order the names first occur
RECURSIVE ParamNames(_, _)
ParamNames(query, seen) ==
  IF query = <<>> THEN <<>>
  ELSE LET name  == Head(query)[1]
           value == Head(query)[2]
       IN  IF value = <<>> \/ name \in seen
           THEN ParamNames(Tail(query), seen)
           ELSE <<name>> \o ParamNames(Tail(query), seen \cup {name})

\* src/cli.py lines 80-83: the keys of get_query_params(url)
get_query_params(url) == ParamNames(url.query, {})

NumPayloads == 3

\* src/scanners/sql_injection.py lines 10-22: the request with payload p
\* and what it adds
SqlRow(url, resp, p) ==
  IF resp.up /\ p \in resp.sqli
  THEN <<Row(url, "SQL Injection", sHigh, Str_A01)>> ELSE <<>>

RECURSIVE SqlRows(_, _, _, _)
SqlRows(url, resp, params, p) ==
  IF params = <<>> THEN <<>>
  ELSE IF p > NumPayloads THEN SqlRows(url, resp, Tail(params), 1)
  ELSE SqlRow(url, resp, p) \o SqlRows(url, resp, params, p + 1)

\* src/scanners/sql_injection.py lines 3-23
check_sql_injection(url, params, resp) == SqlRows(url, resp, params, 1)

\* src/scanners/xss.py lines 10-22: one request and what it adds
XssRow(url, resp) ==
  IF resp.up /\ resp.reflects
  THEN <<Row(url, "Reflected XSS", sHigh, Str_A03)>> ELSE <<>>

RECURSIVE XssRows(_, _, _)
XssRows(url, resp, params) ==
  IF params = <<>> THEN <<>>
  ELSE XssRow(url, resp) \o XssRows(url, resp, Tail(params))

\* src/scanners/xss.py lines 4-23
check_xss(url, params, resp) == XssRows(url, resp, params)

RedirectKeywords ==
  { <<"u","r","l">>, <<"r","e","d","i","r","e","c","t">>, <<"n","e","x","t">>,
    <<"d","e","s","t">>, <<"r","e","t","u","r","n">> }

PyLower(s) == [i \in 1..Len(s) |-> LowerChar(s[i])]

\* src/scanners/open_redirect.py line 10
IsRedirectParam(param) ==
  \E k \in RedirectKeywords : PyContains(k, PyLower(param))

\* lines 14-27: one request and what it adds
RedirectRow(url, resp) ==
  IF resp.up /\ resp.redirects
  THEN <<Row(url, "Open Redirect", sHigh, Str_A01)>> ELSE <<>>

RECURSIVE RedirectRows(_, _, _)
RedirectRows(url, resp, params) ==
  IF params = <<>> THEN <<>>
  ELSE (IF IsRedirectParam(Head(params)) THEN RedirectRow(url, resp) ELSE <<>>)
       \o RedirectRows(url, resp, Tail(params))

\* src/scanners/open_redirect.py lines 5-29
check_open_redirect(url, params, resp) == RedirectRows(url, resp, params)

(***************************************************************************)
(* State.                                                                  *)
(*   rows, score_out   SpecScore: the rows stored for one scan and what    *)
(*                     calculate_security_score returned for them          *)
(*   cr                SpecCrawl: the state of one call of crawl           *)
(*   scans, findings   Spec: the two tables of audit.db; a scan's id is    *)
(*                     its place in scans, findings[id] its rows in        *)
(*                     insertion order                                     *)
(*   has_cols          Spec: whether the scans table of this audit.db has  *)
(*                     the started and finished columns (src/app.py lines  *)
(*                     28-37) or only those of src/db.py lines 12-18       *)
(*   proc              Spec: the locals of each running call               *)
(*   pb                SpecProbe: the state of one call of one probe       *)
(*   pg                SpecPage: the locals of run_scan while it scans one *)
(*                     page                                                *)
(***************************************************************************)
VARIABLES rows, score_out, cr, scans, findings, has_cols, proc, pb, pg

vars_score == <<rows, score_out>>
vars_crawl == <<cr>>
vars_scan  == <<scans, findings, has_cols, proc>>
vars_probe == <<pb, pg>>
vars       == <<rows, score_out, cr, scans, findings, has_cols, proc, pb, pg>>

ScanIdle ==
  /\ scans = <<>>
  /\ findings = <<>>
  /\ has_cols = FALSE
  /\ proc = <<>>

\* a local that no value has been bound to yet
Unbound == [bound |-> FALSE, val |-> 0]

Bound(v) == [bound |-> TRUE, val |-> v]
CrawlIdle == [pc |-> "idle"]

ProbeIdle == [pc |-> "idle"]

PageIdle == [pc |-> "idle"]

(***************************************************************************)
(* SpecScore: calculate_security_score on the rows of one scan.            *)
(***************************************************************************)
Str_high      == <<"h","i","g","h">>
Str_HIGH      == <<"H","I","G","H">>
Str_padHigh   == <<" ","H","i","g","h"," ">>
Str_critical  == <<"c","r","i","t","i","c","a","l">>
Str_bogus     == <<"b","o","g","u","s">>
Str_A04long   == <<"A","0","4",":","2","0","2","1"," ","-"," ","S","o","m","e","t","h","i","n","g">>
Str_NA        == <<"N","/","A">>
Str_A003      == <<"A","0","0","3">>
Str_a010      == <<"a","0","1","0">>
Str_A0minus   == <<"A","0","-","1">>
Str_A0sp7     == <<" ","A","0"," ","7">>
Str_A011      == <<"A","0","1","1">>

SampleRow(severity, owasp) == Row("p", "t", severity, owasp)

\* the findings the scoring inputs are built from
RowPool ==
  {SampleRow(sev, None) :
     sev \in {None, <<>>, sHigh, Str_high, Str_HIGH, Str_padHigh, sCritical,
              Str_critical, sMedium, sLow, sInfo, Str_bogus}}
  \cup {SampleRow(sHigh, o) : o \in {Str_A05, Str_A04long, Str_NA, Str_A003}}
  \cup {SampleRow(sInfo, o) :
          o \in {<<>>, Str_A003, Str_a010, Str_A0minus, Str_A0sp7, Str_A011}}

\* the same finding detected again and again
Fillers == {SampleRow(sInfo, None), SampleRow(sLow, Str_A05)}

MaxBase == 2
MaxPad == 11

SeqsUpTo(S, n) == UNION {[1..k -> S] : k \in 0..n}

Repeat(f, k) == [i \in 1..k |-> f]

InitScore ==
  /\ \E base \in SeqsUpTo(RowPool, MaxBase), f \in Fillers, k \in 0..MaxPad :
       rows = base \o Repeat(f, k)
  /\ score_out = Unbound
  /\ cr = CrawlIdle
  /\ pb = ProbeIdle
  /\ pg = PageIdle
  /\ ScanIdle

\* src/cli.py lines 26-74
calculate_security_score ==
  /\ score_out = Unbound
  /\ score_out' = Bound(ScoreOf(rows))
  /\ UNCHANGED <<rows, cr>>
  /\ UNCHANGED <<vars_scan, vars_probe>>

NextScore == calculate_security_score

SpecScore == InitScore /\ [][NextScore]_vars

(***************************************************************************)
(* SpecCrawl: one call crawl(target, max_pages), an iteration per step.    *)
(* The pages of the web are whatever the fetches return: each successful   *)
(* fetch yields some anchors, each fetch may fail.                         *)
(***************************************************************************)
HostT   == "t.test"
HostSub == "sub.t.test"
HostO   == "o.test"

CrawlTargets == {Url("http", HostT, "/", <<>>, ""), EmptyUrl}

\* href attributes a page may carry
Hrefs ==
  { Url("", "", "/a", <<>>, ""),             \* /a
    Url("http", HostT, "/b", <<>>, ""),      \* http://t.test/b
    Url("", "", "", <<>>, "top"),            \* #top
    Url("", "", "/", <<>>, ""),              \* / , back to the start page
    Url("http", HostSub, "/a", <<>>, ""),    \* a subdomain of the target
    Url("https", HostO, "/", <<>>, "") }     \* another site

MaxPagesBound == 3
MaxLinks == 2

InitCrawl ==
  /\ \E target \in CrawlTargets, max_pages \in 0..MaxPagesBound :
       cr = CrawlStart(target, max_pages)
  /\ rows = <<>>
  /\ score_out = Unbound
  /\ pb = ProbeIdle
  /\ pg = PageIdle
  /\ ScanIdle

\* lines 10-25: the loop condition holds and one iteration runs
CrawlLoop ==
  /\ cr.pc = "loop"
  /\ CrawlCond(cr)
  /\ \E ok \in BOOLEAN, hrefs \in SeqsUpTo(Hrefs, MaxLinks) :
       cr' = CrawlIter(cr, ok, hrefs)
  /\ UNCHANGED <<vars_score, vars_scan, vars_probe>>

\* lines 10 and 27: the loop condition fails and pages is returned
CrawlReturn ==
  /\ cr.pc = "loop"
  /\ ~CrawlCond(cr)
  /\ cr' = [cr EXCEPT !.pc = "done"]
  /\ UNCHANGED <<vars_score, vars_scan, vars_probe>>

NextCrawl == CrawlLoop \/ CrawlReturn

SpecCrawl == InitCrawl /\ [][NextCrawl]_vars

\* the interpreter runs the loop on: no step of it waits for anything but
\* a fetch, and every fetch returns or times out
SpecCrawlFair == SpecCrawl /\ WF_vars(NextCrawl)

(***************************************************************************)
(* Spec: the web the scans run against.                                    *)
(*   big.test   a chain of pages /, /p1?id=1, /p2?debug=, /p3?next=x,      *)
(*              /p4, ...; each links to the next one, to a subdomain and   *)
(*              back to /; any of its pages may be out of reach for a      *)
(*              while                                                      *)
(***************************************************************************)
HostBig  == "big.test"

Str_id    == <<"i","d">>
Str_debug == <<"d","e","b","u","g">>
Str_next  == <<"n","e","x","t">>
Str_1     == <<"1">>

BigPaths == <<"/", "/p1", "/p2", "/p3", "/p4", "/p5", "/p6", "/p7",
              "/p8", "/p9", "/p10", "/p11">>

BigQuery(i) ==
  CASE i = 2 -> << <<Str_id, Str_1>> >>
    [] i = 3 -> << <<Str_debug, <<>> >> >>
    [] i = 4 -> << <<Str_next, Str_1>> >>
    [] OTHER -> <<>>

BigPage(i) == Url("https", HostBig, BigPaths[i], BigQuery(i), "")

BigUrl  == BigPage(1)

BigPages == {BigPage(i) : i \in 1..Len(BigPaths)}

ScanTargets == {EmptyUrl, BigUrl}

\* the anchors of a page of the site
SiteHrefs(url) ==
  IF url \in BigPages
  THEN LET i == CHOOSE k \in 1..Len(BigPaths) : BigPage(k) = url
       IN  (IF i < Len(BigPaths)
            THEN <<Url("", "", BigPaths[i + 1], BigQuery(i + 1), "")>> ELSE <<>>)
           \o <<Url("https", "sub.big.test", "/", <<>>, ""), Url("", "", "/", <<>>, "")>>
  ELSE <<>>

NoResponse ==
  [up |-> FALSE, headers |-> {}, cookies |-> <<>>, http_assets |-> 0,
   keyword |-> FALSE, server |-> "", sqli |-> {}, reflects |-> FALSE,
   redirects |-> FALSE]

CleanResponse ==
  [up |-> TRUE, headers |-> AllHeaders,
   cookies |-> <<[secure |-> TRUE, httponly |-> TRUE]>>, http_assets |-> 0,
   keyword |-> FALSE, server |-> "", sqli |-> {}, reflects |-> FALSE,
   redirects |-> FALSE]

\* what the site answers on a URL when it answers
SiteResponse(url) ==
  CASE url = BigPage(1) ->
         [CleanResponse EXCEPT !.headers = {"X-Frame-Options", "X-Content-Type-Options"}]
    [] url = BigPage(2) -> [CleanResponse EXCEPT !.sqli = {1}]
    [] url \in BigPages -> CleanResponse
    [] OTHER -> NoResponse

\* what one request to the URL can bring: the site's answer or an error
Responses(url) == {SiteResponse(url), NoResponse}

\* the sets of URLs that do not answer during one crawl
DownSets == {{}, {BigPage(3)}, BigPages}

\* crawl run to its end against the site
RECURSIVE CrawlRun(_, _)
CrawlRun(c, down) ==
  IF CrawlCond(c)
  THEN LET url == Head(c.to_visit)
       IN  CrawlRun(CrawlIter(c, url \notin down /\ SiteResponse(url).up, SiteHrefs(url)), down)
  ELSE c

(***************************************************************************)
(* Spec: the database, src/db.py.                                          *)
(***************************************************************************)
Procs == {"p1", "p2"}

NoScan == 0

\* lines 70-80: the row INSERTed by create_scan
NewScanRow(target, status) ==
  [target |-> target, status |-> status, score |-> 0, finished |-> FALSE]

\* lines 83-88 with the WHERE clause left out
SetStatusAll(tbl, scan_id, status) ==
  [i \in 1..Len(tbl) |-> [tbl[i] EXCEPT !.status = status]]

\* lines 83-88
SetStatus(tbl, scan_id, status) == [tbl EXCEPT ![scan_id].status = status]

\* lines 91-96: status and score are written by one UPDATE
SetFinished(tbl, scan_id, score) ==
  [tbl EXCEPT ![scan_id].status = "Completed", ![scan_id].score = score]

\* src/app.py line 104: the fallback UPDATE, which also sets finished
SetFinishedAt(tbl, scan_id, score) ==
  [tbl EXCEPT ![scan_id].status = "Completed", ![scan_id].score = score,
              ![scan_id].finished = TRUE]

\* lines 99-107 with the scan's earlier rows replaced
InsertFindingOnly(tbl, scan_id, row) == [tbl EXCEPT ![scan_id] = <<row>>]

\* lines 99-107
InsertFinding(tbl, scan_id, row) == [tbl EXCEPT ![scan_id] = Append(@, row)]

FailedStatus == "Failed"

\* src/app.py line 110: f"Failed: {str(e)}"
FailedWithCause == "Failed: e"

(***************************************************************************)
(* Spec: the locals of a call.  mode says who called run_scan: the command *)
(* line or an API caller ("cli"), or run_scan_thread ("web").  The         *)
(* argument return_results is read at line 173 only and is chosen there.   *)
(* The fields from probed on record what the call has done: the URLs the   *)
(* passive scans ran on, the URLs the active scans ran on, the number of   *)
(* pages crawl returned, the URLs that did not answer the crawl, whether   *)
(* the call created its scan, whether a step of run_scan failed, whether   *)
(* the handler set Failed, whether the score was computed, and how         *)
(* run_scan and the call ended.  Locals and the record of the pages are    *)
(* reset when                                                              *)
(* the code that reads them is left.                                       *)
(***************************************************************************)
IdleProc ==
  [pc |-> "idle", mode |-> "none", target |-> EmptyUrl, scan_id |-> NoScan,
   pages |-> <<>>, idx |-> 0, pending |-> <<>>,
   score |-> Unbound, exc |-> "none", tscore |-> 0,
   probed |-> <<>>, activated |-> <<>>, crawled |-> Unbound, down |-> {},
   fresh |-> FALSE, faulted |-> FALSE,
   set_failed |-> FALSE, scored |-> FALSE, rs |-> "none", result |-> "none"]

InitScan ==
  /\ scans = <<>>
  /\ findings = <<>>
  /\ has_cols \in BOOLEAN
  /\ proc = [p \in Procs |-> IdleProc]
  /\ rows = <<>>
  /\ score_out = Unbound
  /\ cr = CrawlIdle
  /\ pb = ProbeIdle
  /\ pg = PageIdle

Set(p, new) == proc' = [proc EXCEPT ![p] = new]

\* the locals of the page loop and the record of its pages, once the loop
\* is left
Drop(l) ==
  [l EXCEPT !.pages = <<>>, !.idx = 0, !.pending = <<>>,
            !.probed = <<>>, !.activated = <<>>, !.crawled = Unbound,
            !.down = {}]

\* the locals of run_scan, once the call is left
Leave(l) == [Drop(l) EXCEPT !.score = Unbound]

\* the call is over: what is kept is how it ended
Done(l, result) ==
  [IdleProc EXCEPT !.pc = "done", !.mode = l.mode, !.scan_id = l.scan_id,
                   !.rs = l.rs, !.exc = l.exc, !.faulted = l.faulted,
                   !.result = result]

\* an exception leaves run_scan: the command line ends with it, the thread
\* catches it at src/app.py line 106
Escape(l, exc) ==
  IF l.mode = "web"
  THEN [Leave(l) EXCEPT !.pc = "th_except", !.exc = exc, !.rs = "raised"]
  ELSE Done([l EXCEPT !.exc = exc, !.rs = "raised"], "raised")

\* run_scan returns
Return(l) ==
  IF l.mode = "web"
  THEN [Leave(l) EXCEPT !.pc = "th_fetch", !.rs = "returned"]
  ELSE Done([l EXCEPT !.rs = "returned"], "returned")

InUse(scan_id) == \E q \in Procs : proc[q].scan_id = scan_id /\ proc[q].pc # "done"

\* src/cli.py lines 194-199, or a caller of run_scan(target, return_results=...)
StartCli(p) ==
  /\ proc[p].pc = "idle"
  /\ \E target \in ScanTargets :
       Set(p, [IdleProc EXCEPT !.pc = "rs_init", !.mode = "cli", !.target = target])
  /\ UNCHANGED <<scans, findings, has_cols, vars_score, vars_crawl, vars_probe>>

\* a caller of run_scan(target, scan_id=...) on a scan no call is working on
StartRerun(p) ==
  /\ proc[p].pc = "idle"
  /\ \E scan_id \in 1..Len(scans) :
       /\ ~InUse(scan_id)
       /\ Set(p, [IdleProc EXCEPT !.pc = "rs_init", !.mode = "cli",
                                  !.target = scans[scan_id].target,
                                  !.scan_id = scan_id])
  /\ UNCHANGED <<scans, findings, has_cols, vars_score, vars_crawl, vars_probe>>

\* src/app.py lines 122-163: POST /scan.  Without a target, or when both
\* INSERTs fail, no scan is started.  The fallback INSERT names the started
\* column.
start_scan(p) ==
  /\ proc[p].pc = "idle"
  /\ \E target \in ScanTargets \ {EmptyUrl}, ok1 \in BOOLEAN, ok2 \in BOOLEAN :
       IF ok1 \/ (ok2 /\ has_cols)
       THEN /\ scans' = Append(scans, NewScanRow(target, "Running"))
            /\ findings' = Append(findings, <<>>)
            /\ Set(p, [IdleProc EXCEPT !.pc = "th_running", !.mode = "web",
                                       !.target = target, !.scan_id = Len(scans) + 1,
                                       !.fresh = TRUE])
       ELSE UNCHANGED <<scans, findings, proc>>
  /\ UNCHANGED <<has_cols, vars_score, vars_crawl, vars_probe>>

(***************************************************************************)
(* Spec: run_scan, src/cli.py lines 86-188, a step per database call or    *)
(* network call.  Every database call can fail (sqlite3.OperationalError). *)
(***************************************************************************)
DefaultMaxPages == 5
MAX_PAGES == 10

\* src/crawler.py line 5: crawl called without max_pages, for each target
\* and each set of URLs that do not answer
CrawlTable ==
  [target \in ScanTargets, down \in DownSets |->
     CrawlRun(CrawlStart(target, DefaultMaxPages), down).pages]

\* line 98: crawl(target)
crawl(target, down) == CrawlTable[target, down]

\* lines 98-109 without the substitution of lines 99-100
PagesNoFallback(target, down) ==
  LET pages == crawl(target, down)
  IN  SubSeq(pages, 1, Min(Len(pages), MAX_PAGES))

\* lines 98-109: the pages to scan; run_scan passes no page cap to crawl
PagesToScan(target, down) ==
  LET got   == crawl(target, down)
      pages == IF got = <<>> THEN <<target>> ELSE got
  IN  SubSeq(pages, 1, Min(Len(pages), MAX_PAGES))

\* line 113: not url
Falsy(url) == url = EmptyUrl

\* lines 119-124
PassiveScans(url, r1, r2, r3, r4) ==
  check_security_headers(url, r1) \o check_insecure_cookies(url, r2)
  \o check_mixed_content(url, r3) \o check_info_disclosure(url, r4)

\* lines 144-146
ActiveScans(url, params, r) ==
  check_sql_injection(url, params, r) \o check_xss(url, params, r)
  \o check_open_redirect(url, params, r)

\* line 88
RS_InitDb(p) ==
  /\ proc[p].pc = "rs_init"
  /\ \E ok \in BOOLEAN :
       Set(p, IF ok THEN [proc[p] EXCEPT !.pc = "rs_begin"]
              ELSE Escape([proc[p] EXCEPT !.faulted = TRUE], "OperationalError"))
  /\ UNCHANGED <<scans, findings, has_cols, vars_score, vars_crawl, vars_probe>>

\* lines 90-91: scan_id is None, create_scan
RS_Create(p) ==
  /\ proc[p].pc = "rs_begin"
  /\ proc[p].scan_id = NoScan
  /\ \E ok \in BOOLEAN :
       IF ok
       THEN /\ scans' = Append(scans, NewScanRow(proc[p].target, "Running"))
            /\ findings' = Append(findings, <<>>)
            /\ Set(p, [proc[p] EXCEPT !.pc = "rs_crawl", !.scan_id = Len(scans) + 1,
                                      !.fresh = TRUE])
       ELSE /\ Set(p, Escape([proc[p] EXCEPT !.faulted = TRUE], "OperationalError"))
            /\ UNCHANGED <<scans, findings>>
  /\ UNCHANGED <<has_cols, vars_score, vars_crawl, vars_probe>>

\* lines 92-93: update_scan_status(scan_id, "Running")
RS_Resume(p) ==
  /\ proc[p].pc = "rs_begin"
  /\ proc[p].scan_id # NoScan
  /\ \E ok \in BOOLEAN :
       IF ok
       THEN /\ scans' = SetStatus(scans, proc[p].scan_id, "Running")
            /\ Set(p, [proc[p] EXCEPT !.pc = "rs_crawl"])
       ELSE /\ Set(p, Escape([proc[p] EXCEPT !.faulted = TRUE], "OperationalError"))
            /\ UNCHANGED scans
  /\ UNCHANGED <<findings, has_cols, vars_score, vars_crawl, vars_probe>>

\* lines 98-109.  crawl catches what its requests raise, so the handler of
\* lines 103-106 sees no exception from it.
RS_Crawl(p) ==
  /\ proc[p].pc = "rs_crawl"
  /\ \E down \in DownSets :
       Set(p, [proc[p] EXCEPT !.pc = "rs_page", !.idx = 1,
                              !.pages = PagesToScan(proc[p].target, down),
                              !.crawled = Bound(Len(crawl(proc[p].target, down))),
                              !.down = down])
  /\ UNCHANGED <<scans, findings, has_cols, vars_score, vars_crawl, vars_probe>>

\* where the loop of line 111 goes after the page at idx
NextPage(l) == [l EXCEPT !.pc = "rs_page", !.idx = l.idx + 1, !.pending = <<>>]

\* line 142: if params
HasParams(url) == get_query_params(url) # <<>>

\* lines 141-142: after the passive findings are saved, the active scans
\* follow when the URL has parameters, the next page otherwise
AfterPassive(l) ==
  IF HasParams(l.pages[l.idx])
  THEN [l EXCEPT !.pc = "rs_active", !.pending = <<>>]
  ELSE NextPage(l)

\* lines 111-124: the next page and its passive scans; the probes catch
\* what their requests raise, so the handler of lines 125-127 stays unused
RS_Passive(p) ==
  /\ proc[p].pc = "rs_page"
  /\ proc[p].idx <= Len(proc[p].pages)
  /\ LET l   == proc[p]
         url == l.pages[l.idx]
     IN  IF Falsy(url)
         THEN Set(p, NextPage(l))
         ELSE \E r \in Responses(url) :
                LET all_passive == PassiveScans(url, r, r, r, r)
                    l1 == [l EXCEPT !.probed = Append(l.probed, url)]
                IN  Set(p, IF all_passive = <<>> THEN AfterPassive(l1)
                           ELSE [l1 EXCEPT !.pc = "rs_save_passive",
                                           !.pending = all_passive])
  /\ UNCHANGED <<scans, findings, has_cols, vars_score, vars_crawl, vars_probe>>

\* lines 137 and 160: save_finding of the next finding of the page
RS_SaveFinding(p) ==
  /\ proc[p].pc \in {"rs_save_passive", "rs_save_active"}
  /\ LET l == proc[p]
     IN  \E ok \in BOOLEAN :
           IF ok
           THEN /\ findings' = InsertFinding(findings, l.scan_id, Head(l.pending))
                /\ Set(p, IF Tail(l.pending) # <<>> THEN [l EXCEPT !.pending = Tail(l.pending)]
                          ELSE IF l.pc = "rs_save_passive" THEN AfterPassive(l)
                          ELSE NextPage(l))
           ELSE /\ Set(p, [Drop(l) EXCEPT !.pc = "rs_handler", !.faulted = TRUE,
                                    !.exc = "OperationalError"])
                /\ UNCHANGED findings
  /\ UNCHANGED <<scans, has_cols, vars_score, vars_crawl, vars_probe>>

\* lines 143-150: the active scans of the page
RS_Active(p) ==
  /\ proc[p].pc = "rs_active"
  /\ LET l   == proc[p]
         url == l.pages[l.idx]
     IN  \E r \in Responses(url) :
           LET found == ActiveScans(url, get_query_params(url), r)
               l1    == [l EXCEPT !.activated = Append(l.activated, url)]
           IN  Set(p, IF found = <<>> THEN NextPage(l1)
                      ELSE [l1 EXCEPT !.pc = "rs_save_active", !.pending = found])
  /\ UNCHANGED <<scans, findings, has_cols, vars_score, vars_crawl, vars_probe>>

\* lines 163-164 moved into the loop of line 111: the score is computed
\* while pages are still to be scanned
RS_ScoreEarly(p) ==
  /\ proc[p].pc = "rs_page"
  /\ ~proc[p].scored
  /\ LET l == proc[p]
     IN  Set(p, [l EXCEPT !.scored = TRUE,
                          !.pc = IF l.idx > Len(l.pages) THEN "rs_finish" ELSE "rs_page",
                          !.score = Bound(ScoreOf(findings[l.scan_id]))])
  /\ UNCHANGED <<scans, findings, has_cols, vars_score, vars_crawl, vars_probe>>

\* line 164: calculate_security_score once the pages are done
RS_Score(p) ==
  /\ proc[p].pc = "rs_page"
  /\ proc[p].idx > Len(proc[p].pages)
  /\ LET l == proc[p]
     IN  \E ok \in BOOLEAN :
           Set(p, IF ok
                  THEN [l EXCEPT !.pc = "rs_finish", !.scored = TRUE,
                                 !.score = Bound(ScoreOf(findings[l.scan_id]))]
                  ELSE [Drop(l) EXCEPT !.pc = "rs_handler", !.faulted = TRUE,
                                 !.exc = "OperationalError"])
  /\ UNCHANGED <<scans, findings, has_cols, vars_score, vars_crawl, vars_probe>>

\* line 165: update_scan_finished(scan_id, score)
RS_Finish(p) ==
  /\ proc[p].pc = "rs_finish"
  /\ LET l == proc[p]
     IN  \E ok \in BOOLEAN :
           IF ok
           THEN /\ scans' = SetFinished(scans, l.scan_id, l.score.val)
                /\ Set(p, [Drop(l) EXCEPT !.pc = "rs_return"])
           ELSE /\ Set(p, [Drop(l) EXCEPT !.pc = "rs_handler", !.faulted = TRUE,
                                    !.exc = "OperationalError"])
                /\ UNCHANGED scans
  /\ UNCHANGED <<findings, has_cols, vars_score, vars_crawl, vars_probe>>

\* lines 168-171: the handler; its own database call is not guarded
RS_Handler(p) ==
  /\ proc[p].pc = "rs_handler"
  /\ LET l == proc[p]
     IN  \E ok \in BOOLEAN :
           IF ok
           THEN /\ scans' = SetStatus(scans, l.scan_id, FailedStatus)
                /\ Set(p, [l EXCEPT !.pc = "rs_return", !.set_failed = TRUE, !.exc = "none"])
           ELSE /\ Set(p, Escape(l, "OperationalError"))
                /\ UNCHANGED scans
  /\ UNCHANGED <<findings, has_cols, vars_score, vars_crawl, vars_probe>>

\* lines 173-188: with return_results the rows are read again and the local
\* score is read, which no value was bound to when the handler ran
RS_Return(p) ==
  /\ proc[p].pc = "rs_return"
  /\ LET l == proc[p]
     IN  \E return_results \in (IF l.mode = "web" THEN {FALSE} ELSE BOOLEAN) :
           IF return_results
           THEN \E ok \in BOOLEAN :
                  Set(p, IF ~ok THEN Escape(l, "OperationalError")
                         ELSE IF ~l.score.bound THEN Escape(l, "UnboundLocalError")
                         ELSE Return(l))
           ELSE Set(p, Return(l))
  /\ UNCHANGED <<scans, findings, has_cols, vars_score, vars_crawl, vars_probe>>

(***************************************************************************)
(* Spec: run_scan_thread, src/app.py lines 74-112.  run_scan raises no     *)
(* TypeError, so the call of line 94 is never made.                        *)
(***************************************************************************)
\* lines 83-86: status Running, by db.update_scan_status or by query_db
TH_Running(p) ==
  /\ proc[p].pc = "th_running"
  /\ \E ok1 \in BOOLEAN, ok2 \in BOOLEAN :
       IF ok1 \/ ok2
       THEN /\ scans' = SetStatus(scans, proc[p].scan_id, "Running")
            /\ Set(p, [proc[p] EXCEPT !.pc = "rs_init"])
       ELSE /\ Set(p, [proc[p] EXCEPT !.pc = "th_except", !.exc = "OperationalError"])
            /\ UNCHANGED scans
  /\ UNCHANGED <<findings, has_cols, vars_score, vars_crawl, vars_probe>>

\* lines 97-98: the score is read back from the scan's row
TH_Fetch(p) ==
  /\ proc[p].pc = "th_fetch"
  /\ \E ok \in BOOLEAN :
       Set(p, IF ok
              THEN [proc[p] EXCEPT !.pc = "th_final",
                                   !.tscore = scans[proc[p].scan_id].score]
              ELSE [proc[p] EXCEPT !.pc = "th_except", !.exc = "OperationalError"])
  /\ UNCHANGED <<scans, findings, has_cols, vars_score, vars_crawl, vars_probe>>

\* lines 101-102: finalize, whatever run_scan left as the status
Finalize(tbl, scan_id, score) == SetFinished(tbl, scan_id, score)

\* lines 101-104: db.update_scan_finished, or the UPDATE that names finished
TH_Final(p) ==
  /\ proc[p].pc = "th_final"
  /\ LET l == proc[p]
     IN  \E ok1 \in BOOLEAN, ok2 \in BOOLEAN :
           IF ok1
           THEN /\ scans' = Finalize(scans, l.scan_id, l.tscore)
                /\ Set(p, Done(l, "returned"))
           ELSE IF ok2 /\ has_cols
           THEN /\ scans' = SetFinishedAt(scans, l.scan_id, l.tscore)
                /\ Set(p, Done(l, "returned"))
           ELSE /\ Set(p, [l EXCEPT !.pc = "th_except", !.exc = "OperationalError",
                                    !.tscore = 0])
                /\ UNCHANGED scans
  /\ UNCHANGED <<findings, has_cols, vars_score, vars_crawl, vars_probe>>

\* lines 106-112: mark failed, by db.update_scan_status or by query_db
TH_Except(p) ==
  /\ proc[p].pc = "th_except"
  /\ LET l == proc[p]
     IN  \E ok1 \in BOOLEAN, ok2 \in BOOLEAN :
           IF ok1 \/ ok2
           THEN /\ scans' = SetStatus(scans, l.scan_id, FailedWithCause)
                /\ Set(p, Done(l, "returned"))
           ELSE /\ Set(p, Done(l, "raised"))
                /\ UNCHANGED scans
  /\ UNCHANGED <<findings, has_cols, vars_score, vars_crawl, vars_probe>>

Next ==
  \E p \in Procs :
    \/ StartCli(p) \/ StartRerun(p) \/ start_scan(p)
    \/ RS_InitDb(p) \/ RS_Create(p) \/ RS_Resume(p) \/ RS_Crawl(p)
    \/ RS_Passive(p) \/ RS_SaveFinding(p) \/ RS_Active(p)
    \/ RS_Score(p) \/ RS_Finish(p) \/ RS_Handler(p) \/ RS_Return(p)
    \/ TH_Running(p) \/ TH_Fetch(p) \/ TH_Final(p) \/ TH_Except(p)

Spec == InitScan /\ [][Next]_vars

(***************************************************************************)
(* SpecProbe: one call of one probe of src/scanners, a step per request.   *)
(* Each request fails (NoResponse: requests.get raises) or is answered.    *)
(* found is the probe's local findings, sent and failed count its          *)
(* requests.                                                               *)
(***************************************************************************)
PassiveProbes ==
  {"check_security_headers", "check_insecure_cookies", "check_mixed_content",
   "check_info_disclosure"}

ActiveProbes == {"check_sql_injection", "check_xss", "check_open_redirect"}

\* a page with two parameters, one of them a redirect parameter
ProbeUrl ==
  Url("https", HostBig, "/q", << <<Str_id, Str_1>>, <<Str_next, Str_1>> >>, "")

ProbeUrls == {ProbeUrl, Url("http", HostBig, "/", <<>>, "")}

\* an answer every probe finds something in
DirtyResponse ==
  [up |-> TRUE, headers |-> {},
   cookies |-> <<[secure |-> FALSE, httponly |-> FALSE]>>, http_assets |-> 2,
   keyword |-> TRUE, server |-> "nginx", sqli |-> {1, 3}, reflects |-> TRUE,
   redirects |-> TRUE]

ProbeResponses == {NoResponse, CleanResponse, DirtyResponse}

ProbeCall ==
  /\ pb.pc = "idle"
  /\ \E probe \in PassiveProbes \cup ActiveProbes, url \in ProbeUrls :
       pb' = [pc |-> "run", probe |-> probe, url |-> url,
              params |-> get_query_params(url), k |-> 1, p |-> 1,
              found |-> <<>>, sent |-> 0, failed |-> 0, raised |-> FALSE]
  /\ UNCHANGED <<vars_score, vars_crawl, vars_scan, pg>>

\* the except clause re-raising what the request raised
Propagate(b) == [b EXCEPT !.pc = "done", !.raised = TRUE]

\* the except clauses of the probes: return [], pass or continue
Swallow(b) == b

\* one request of the probe: r is its outcome, added what the code after the
\* request adds when the request is answered
Request(b, r, added) ==
  LET b1 == [b EXCEPT !.sent = b.sent + 1]
  IN  IF r.up THEN [b1 EXCEPT !.found = b.found \o added]
      ELSE Swallow([b1 EXCEPT !.failed = b.failed + 1])

\* the four passive probes: one request (none for check_mixed_content on a
\* URL that is not https), then the checks on the answer
ProbePassive ==
  /\ pb.pc = "run" /\ pb.probe \in PassiveProbes
  /\ IF pb.probe = "check_mixed_content" /\ pb.url.scheme # "https"
     THEN pb' = [pb EXCEPT !.pc = "done"]
     ELSE \E r \in ProbeResponses :
            LET added == CASE pb.probe = "check_security_headers" ->
                               check_security_headers(pb.url, r)
                           [] pb.probe = "check_insecure_cookies" ->
                               check_insecure_cookies(pb.url, r)
                           [] pb.probe = "check_mixed_content" ->
                               check_mixed_content(pb.url, r)
                           [] pb.probe = "check_info_disclosure" ->
                               check_info_disclosure(pb.url, r)
                b1    == Request(pb, r, added)
            IN  pb' = [b1 EXCEPT !.pc = "done"]
  /\ UNCHANGED <<vars_score, vars_crawl, vars_scan, pg>>

\* src/scanners/sql_injection.py lines 6-22: the request of parameter k
\* with payload p
ProbeSql ==
  /\ pb.pc = "run" /\ pb.probe = "check_sql_injection"
  /\ pb.k <= Len(pb.params)
  /\ \E r \in ProbeResponses :
       LET b1 == Request(pb, r, SqlRow(pb.url, r, pb.p))
       IN  pb' = IF b1.pc # "run" THEN b1
                 ELSE IF pb.p < NumPayloads THEN [b1 EXCEPT !.p = pb.p + 1]
                 ELSE [b1 EXCEPT !.p = 1, !.k = pb.k + 1]
  /\ UNCHANGED <<vars_score, vars_crawl, vars_scan, pg>>

\* src/scanners/xss.py lines 7-22: the request of parameter k
ProbeXss ==
  /\ pb.pc = "run" /\ pb.probe = "check_xss"
  /\ pb.k <= Len(pb.params)
  /\ \E r \in ProbeResponses :
       LET b1 == Request(pb, r, XssRow(pb.url, r))
       IN  pb' = IF b1.pc # "run" THEN b1 ELSE [b1 EXCEPT !.k = pb.k + 1]
  /\ UNCHANGED <<vars_score, vars_crawl, vars_scan, pg>>

\* src/scanners/open_redirect.py lines 9-27: parameter k, requested when
\* its name holds a redirect keyword
ProbeRedirect ==
  /\ pb.pc = "run" /\ pb.probe = "check_open_redirect"
  /\ pb.k <= Len(pb.params)
  /\ IF ~IsRedirectParam(pb.params[pb.k])
     THEN pb' = [pb EXCEPT !.k = pb.k + 1]
     ELSE \E r \in ProbeResponses :
            LET b1 == Request(pb, r, RedirectRow(pb.url, r))
            IN  pb' = IF b1.pc # "run" THEN b1 ELSE [b1 EXCEPT !.k = pb.k + 1]
  /\ UNCHANGED <<vars_score, vars_crawl, vars_scan, pg>>

\* return findings, the parameters done
ProbeReturn ==
  /\ pb.pc = "run" /\ pb.probe \in ActiveProbes
  /\ pb.k > Len(pb.params)
  /\ pb' = [pb EXCEPT !.pc = "done"]
  /\ UNCHANGED <<vars_score, vars_crawl, vars_scan, pg>>

NextProbe ==
  \/ ProbeCall \/ ProbePassive \/ ProbeSql \/ ProbeXss \/ ProbeRedirect
  \/ ProbeReturn

SpecProbe == InitScan /\ [][NextProbe]_vars

(***************************************************************************)
(* SpecPage: the body of the loop of src/cli.py line 111 for one page,     *)
(* lines 118-161, a step per probe call.  A call returns its findings or   *)
(* raises: run_scan guards the calls with the handlers of lines 125-127    *)
(* and 147-150.  The scanners catch what their requests raise, so what     *)
(* reaches these handlers is raised outside the scanners' own try blocks.  *)
(* all_passive and active are the locals (active is                        *)
(* sqli + xss + redirects); ran, raised, returned and saved record which   *)
(* probes returned, which raised, the findings returned and the findings   *)
(* passed to save_finding.                                                 *)
(***************************************************************************)
PassiveOrder ==
  <<"check_security_headers", "check_insecure_cookies", "check_mixed_content",
    "check_info_disclosure">>

ActiveOrder == <<"check_sql_injection", "check_xss", "check_open_redirect">>

\* what a probe returns for an answer r
ProbeRows(probe, url, params, r) ==
  CASE probe = "check_security_headers" -> check_security_headers(url, r)
    [] probe = "check_insecure_cookies" -> check_insecure_cookies(url, r)
    [] probe = "check_mixed_content"    -> check_mixed_content(url, r)
    [] probe = "check_info_disclosure"  -> check_info_disclosure(url, r)
    [] probe = "check_sql_injection"    -> check_sql_injection(url, params, r)
    [] probe = "check_xss"              -> check_xss(url, params, r)
    [] probe = "check_open_redirect"    -> check_open_redirect(url, params, r)

PageResponses == {CleanResponse, DirtyResponse}

\* lines 111-119
PageStart ==
  /\ pg.pc = "idle"
  /\ \E url \in ProbeUrls :
       pg' = [pc |-> "passive", url |-> url, step |-> 1, all_passive |-> <<>>,
              active |-> <<>>, ran |-> {}, raised |-> {}, returned |-> <<>>,
              saved |-> <<>>]
  /\ UNCHANGED <<vars_score, vars_crawl, vars_scan, pb>>

\* lines 120-127: the next passive probe; when it raises, the handler is
\* entered and the rest of the try block is left out
PagePassive ==
  /\ pg.pc = "passive"
  /\ LET probe == PassiveOrder[pg.step]
     IN  \/ \E r \in PageResponses :
              LET found == ProbeRows(probe, pg.url, <<>>, r)
              IN  pg' = [pg EXCEPT !.all_passive = pg.all_passive \o found,
                                   !.returned = pg.returned \o found,
                                   !.ran = pg.ran \cup {probe},
                                   !.step = pg.step + 1,
                                   !.pc = IF pg.step = Len(PassiveOrder)
                                          THEN "save_passive" ELSE "passive"]
         \/ pg' = [pg EXCEPT !.raised = pg.raised \cup {probe},
                             !.pc = "save_passive"]
  /\ UNCHANGED <<vars_score, vars_crawl, vars_scan, pb>>

\* lines 129-142: every finding of all_passive is saved; then the test of
\* params
PageSavePassive ==
  /\ pg.pc = "save_passive"
  /\ pg' = [pg EXCEPT !.saved = pg.saved \o pg.all_passive, !.step = 1,
                      !.pc = IF HasParams(pg.url) THEN "active" ELSE "next"]
  /\ UNCHANGED <<vars_score, vars_crawl, vars_scan, pb>>

\* lines 143-150: the next active probe; when it raises, the handler sets
\* sqli, xss and redirects to []
PageActive ==
  /\ pg.pc = "active"
  /\ LET probe == ActiveOrder[pg.step]
     IN  \/ \E r \in PageResponses :
              LET found == ProbeRows(probe, pg.url, get_query_params(pg.url), r)
              IN  pg' = [pg EXCEPT !.active = pg.active \o found,
                                   !.returned = pg.returned \o found,
                                   !.ran = pg.ran \cup {probe},
                                   !.step = pg.step + 1,
                                   !.pc = IF pg.step = Len(ActiveOrder)
                                          THEN "save_active" ELSE "active"]
         \/ pg' = [pg EXCEPT !.raised = pg.raised \cup {probe},
                             !.active = <<>>, !.pc = "save_active"]
  /\ UNCHANGED <<vars_score, vars_crawl, vars_scan, pb>>

\* lines 152-161: every finding of sqli + xss + redirects is saved; the
\* loop goes on to the next page
PageSaveActive ==
  /\ pg.pc = "save_active"
  /\ pg' = [pg EXCEPT !.saved = pg.saved \o pg.active, !.pc = "next"]
  /\ UNCHANGED <<vars_score, vars_crawl, vars_scan, pb>>

NextPageScan ==
  \/ PageStart \/ PagePassive \/ PageSavePassive \/ PageActive
  \/ PageSaveActive

SpecPage == InitScan /\ [][NextPageScan]_vars

(***************************************************************************)
(* Properties of the scoring function (SpecScore).                         *)
(***************************************************************************)
RawScore(fs) ==
  ScoreCeil - TotalDeduction(fs) - complexity_penalty(fs) + safety_bonus(fs)

\* C1: whatever findings are stored for the scan (any number, any severity
\* label, recognised or not or missing, any OWASP mapping, malformed or
\* missing), calculate_security_score returns an integer between 10 and 100.
C1_ScoreInRange ==
  score_out.bound => score_out.val \in ScoreFloor..ScoreCeil

\* C1 witness: a score was returned for rows with a missing severity, an
\* unrecognised one and a malformed mapping, where the unclamped value lies
\* below the floor.
C1_Witness ==
  /\ score_out.bound
  /\ RawScore(rows) < ScoreFloor
  /\ \E i \in 1..Len(rows) : rows[i].severity = Str_bogus
  /\ \E i \in 1..Len(rows) : rows[i].owasp_mapping = Str_NA

(***************************************************************************)
(* Properties of the crawler (SpecCrawl).                                  *)
(***************************************************************************)
NoRepeats(s) == \A i, j \in 1..Len(s) : s[i] = s[j] => i = j

Running(c) == c.pc \in {"loop", "done"}

\* C6: the pages returned are at most max_pages, no URL is returned twice
\* and no URL is fetched twice.
C6_BoundedNoRevisit ==
  Running(cr) =>
    /\ Len(cr.pages) <= cr.max_pages
    /\ NoRepeats(cr.pages)
    /\ NoRepeats(cr.fetched)

\* C6 witness: the crawl returned with the cap reached while the frontier
\* still held URLs, after a URL already visited had been met again.
C6_Witness ==
  /\ cr.pc = "done"
  /\ cr.max_pages = MaxPagesBound
  /\ Len(cr.pages) = cr.max_pages
  /\ cr.to_visit # <<>>
  /\ \E i \in 1..Len(cr.to_visit) : cr.to_visit[i] \in cr.visited

\* C7: what is put on the frontier after the target are exactly the links
\* found whose network location equals the target's; every URL fetched and
\* every page returned has the target's network location.
C7_SameHostOnly ==
  Running(cr) =>
    /\ cr.enq = {u \in cr.links : Netloc(u) = Netloc(cr.target)}
    /\ \A i \in 1..Len(cr.to_visit) : Netloc(cr.to_visit[i]) = Netloc(cr.target)
    /\ \A i \in 1..Len(cr.fetched) : Netloc(cr.fetched[i]) = Netloc(cr.target)
    /\ \A i \in 1..Len(cr.pages) : Netloc(cr.pages[i]) = Netloc(cr.target)

\* C7 witness: the crawl returned more than one page although the pages it
\* fetched linked to a subdomain of the target and to another site.
C7_Witness ==
  /\ cr.pc = "done"
  /\ Len(cr.pages) >= 2
  /\ \E u \in cr.links : Netloc(u) = HostSub
  /\ \E u \in cr.links : Netloc(u) = HostO

\* One step of the loop moves down in the order (pages still allowed,
\* length of the frontier): a page is added, or none is and the frontier
\* gets shorter.  A failed fetch is the second case with nothing enqueued.
CrawlDescends ==
  (cr.pc = "loop" /\ cr'.pc = "loop") =>
     \/ /\ Len(cr'.pages) = Len(cr.pages) + 1
        /\ Len(cr'.pages) <= cr.max_pages
     \/ /\ cr'.pages = cr.pages
        /\ cr'.to_visit = Tail(cr.to_visit)
        /\ cr'.enq = cr.enq

FailSkips ==
  (cr.pc = "loop" /\ cr'.pc = "loop" /\ cr'.last = "fail") =>
     /\ cr'.to_visit = Tail(cr.to_visit)
     /\ cr'.pages = cr.pages
     /\ Head(cr.to_visit) \in cr'.visited

EndsExactly ==
  /\ (cr.pc = "loop" /\ cr'.pc = "done") =>
        (Len(cr.pages) = cr.max_pages \/ cr.to_visit = <<>>)
  /\ (cr.pc = "loop" /\ cr'.pc = "loop") =>
        (Len(cr.pages) < cr.max_pages /\ cr.to_visit # <<>>)

\* C8: crawl terminates under every pattern of fetch failures: each
\* iteration descends in a well-founded order, a failed fetch is skipped
\* with nothing added and its URL never tried again, the loop ends exactly
\* when max_pages pages were fetched or the frontier is empty, and under
\* fair scheduling the call returns.
C8_CrawlTerminates ==
  /\ [][CrawlDescends /\ FailSkips /\ EndsExactly]_cr
  /\ [](Running(cr) => NoRepeats(cr.fetched))
  /\ <>(cr.pc = "done")

\* C8 witness: the crawl returned after a fetch failed and later fetches
\* went on and succeeded.
C8_Witness ==
  /\ cr.pc = "done"
  /\ Len(cr.fetched) > Len(cr.pages)
  /\ Len(cr.pages) >= 1
  /\ cr.pages[Len(cr.pages)] # cr.fetched[1]


(***************************************************************************)
(* Properties of the scan lifecycle (Spec).                                *)
(***************************************************************************)
Terminal == {"Completed", FailedStatus, FailedWithCause}

\* one call from its start to its end, nothing else running: the command
\* line, an API caller, or POST /scan and its thread
OneCall == CHOOSE p \in Procs : TRUE

NextOneCall ==
  \/ StartCli(OneCall) \/ start_scan(OneCall)
  \/ RS_InitDb(OneCall) \/ RS_Create(OneCall) \/ RS_Resume(OneCall)
  \/ RS_Crawl(OneCall) \/ RS_Passive(OneCall) \/ RS_SaveFinding(OneCall)
  \/ RS_Active(OneCall) \/ RS_Score(OneCall) \/ RS_Finish(OneCall)
  \/ RS_Handler(OneCall) \/ RS_Return(OneCall)
  \/ TH_Running(OneCall) \/ TH_Fetch(OneCall) \/ TH_Final(OneCall)
  \/ TH_Except(OneCall)

\* every database call and every request returns or fails in finite time, so
\* a call that can take a step takes one
SpecOneCall == InitScan /\ [][NextOneCall]_vars /\ WF_vars(NextOneCall)

\* C2: no exception escapes run_scan, and when a step of run_scan has failed
\* run_scan returns with the scan's status left as Failed.
C2_NoExceptionEscapes ==
  \A p \in Procs :
    /\ proc[p].rs # "raised"
    /\ (proc[p].pc = "th_fetch" /\ proc[p].faulted)
         => scans[proc[p].scan_id].status = FailedStatus

\* C3: once run_scan has set a scan's status to Failed, no later step of
\* the same attempt, run_scan_thread's steps included, changes the scan's
\* status or its score.
C3_FailedIsTerminal ==
  [][\A p \in Procs :
       (proc[p].set_failed /\ proc[p].pc # "done")
         => /\ scans'[proc[p].scan_id].status = scans[proc[p].scan_id].status
            /\ scans'[proc[p].scan_id].score = scans[proc[p].scan_id].score]_vars

\* C4: a Completed scan has the score the scoring function gives for its
\* findings, and a completion timestamp.
C4_CompletedHasScoreAndTime ==
  \A s \in 1..Len(scans) :
    scans[s].status = "Completed"
      => /\ scans[s].score = ScoreOf(findings[s])
         /\ scans[s].finished

\* C5: every started scan eventually has status Completed or Failed.
C5_EveryScanEnds ==
  \A s \in 1..Cardinality(Procs) :
    [](Len(scans) >= s => <>(Len(scans) >= s /\ scans[s].status \in Terminal))

\* the loop of src/cli.py line 111 is over and the score is computed
Scored(l) == l.pc = "rs_finish" /\ l.scored

\* C9: run_scan probes at most 10 pages, and exactly 10 when at least 10
\* same-host pages are reachable from the target and all answer.
C9_TenPagesProbed ==
  \A p \in Procs :
    /\ Len(proc[p].probed) <= MAX_PAGES
    /\ (Scored(proc[p]) /\ proc[p].target = BigUrl /\ proc[p].down = {})
         => Len(proc[p].probed) = MAX_PAGES

AfterScoring(l) == l.scored /\ l.pc # "done"

\* C11: once a call of run_scan has computed the score, no step persists a
\* finding for its scan and the call runs no probe, until the call is over
\* (a later call of run_scan puts the scan back into Running first).
C11_NoProbeAfterScore ==
  [][\A p \in Procs :
       AfterScoring(proc[p])
         => /\ findings'[proc[p].scan_id] = findings[proc[p].scan_id]
            /\ proc'[p].pc \notin {"rs_save_passive", "rs_active", "rs_save_active"}
            /\ Len(proc'[p].probed) <= Len(proc[p].probed)]_vars

\* C11 witness: the score is computed, after findings of two pages were
\* saved by the call.
C11_Witness ==
  \E p \in Procs :
    /\ AfterScoring(proc[p]) /\ proc[p].pc = "rs_finish"
    /\ Len(proc[p].probed) >= 2
    /\ \E i, j \in 1..Len(findings[proc[p].scan_id]) :
         findings[proc[p].scan_id][i].page # findings[proc[p].scan_id][j].page



InSeq(x, s) == \E i \in 1..Len(s) : s[i] = x

ActiveTypes == {"SQL Injection", "Reflected XSS", "Open Redirect"}

\* C12: for each page with a URL that the loop has gone past, the passive
\* scans ran, and the active scans ran if and only if the page's URL
\* carries a query parameter; no finding of an active scan is stored for a
\* page whose URL carries none.
C12_ActiveIffQuery ==
  /\ \A p \in Procs : \A i \in 1..Len(proc[p].pages) :
       (/\ proc[p].pc \in {"rs_page", "rs_finish"}
        /\ i < proc[p].idx
        /\ ~Falsy(proc[p].pages[i]))
         => LET url == proc[p].pages[i]
            IN  /\ InSeq(url, proc[p].probed)
                /\ InSeq(url, proc[p].activated) <=> url.query # <<>>
  /\ \A s \in 1..Len(findings) : \A i \in 1..Len(findings[s]) :
       findings[s][i].type \in ActiveTypes => findings[s][i].page.query # <<>>



(***************************************************************************)
(* Further properties of the scoring function (SpecScore).                 *)
(***************************************************************************)
\* the bonus of a category number
CategoryBonus(num) ==
  IF 1 <= num /\ num <= 5 THEN BonusLow
  ELSE IF 6 <= num /\ num <= 10 THEN BonusMid
  ELSE 0

\* "A0" followed by a digit: the letter A and the two-digit number 0d
StartsWithCategory(owasp) ==
  /\ Len(owasp) >= 3
  /\ owasp[1] = "A" /\ owasp[2] = "0" /\ IsIn(owasp[3], Digits)

\* C13: in a scored finding list, a finding whose normalised mapping starts
\* with "A0" and a digit gets the bonus of its two-digit category number
\* (10 for 01..05, 5 for 06..10), so "A04:2021 - Something" gets 10, and
\* the malformed mapping "N/A" gets 0.
C13_OwaspBonus ==
  score_out.bound =>
    \A i \in 1..Len(rows) :
      LET owasp == NormOwasp(rows[i])
      IN  /\ StartsWithCategory(owasp)
               => OwaspBonus(rows[i]) = CategoryBonus(DigitsValue(SubSeq(owasp, 2, 3)))
          /\ owasp = Str_NA => OwaspBonus(rows[i]) = 0



\* a severity label with its surrounding whitespace removed and its letter
\* case set to that of the weight table; a missing label is left alone
Relabel(f) ==
  IF f.severity = None THEN f
  ELSE [f EXCEPT !.severity = PyCapitalize(PyStrip(f.severity))]

\* the same findings, the severity labels differing in letter case and
\* surrounding whitespace only
Relabelled(fs) == [i \in 1..Len(fs) |-> Relabel(fs[i])]

\* C14: the score returned for a finding list equals the score of the list
\* whose severity labels differ from it only in letter case and in leading
\* or trailing whitespace, and so do the base weights and the safety bonus.
C14_SeverityNormalised ==
  score_out.bound =>
    /\ score_out.val = ScoreOf(Relabelled(rows))
    /\ safety_bonus(rows) = safety_bonus(Relabelled(rows))
    /\ \A i \in 1..Len(rows) :
         severity_weights(NormSeverity(rows[i]))
           = severity_weights(NormSeverity(Relabel(rows[i])))



(***************************************************************************)
(* Further properties of the scan lifecycle (Spec).                        *)
(***************************************************************************)
\* a page that lacks Content-Security-Policy and Strict-Transport-Security
LacksCspAndHsts(resp) ==
  resp.up /\ AllHeaders \ resp.headers = {"Content-Security-Policy", "Strict-Transport-Security"}

\* the call has scored a scan whose only findings are those of
\* check_security_headers for such a page
ScoredTwoHeaders(l) ==
  /\ Scored(l)
  /\ \E url \in BigPages :
       /\ LacksCspAndHsts(SiteResponse(url))
       /\ findings[l.scan_id] = check_security_headers(url, SiteResponse(url))

\* C15 as stated: for such a scan the total deduction is at least 80 and
\* the score at most 20.
C15_TwoHeadersAtMost20 ==
  \A p \in Procs :
    ScoredTwoHeaders(proc[p])
      => /\ TotalDeduction(findings[proc[p].scan_id]) >= 80
         /\ proc[p].score.val <= 20

\* C15: for such a scan the total deduction is at least 50, two base
\* weights of High, and the score is at most 50.
C15_TwoHeadersAtMost50 ==
  \A p \in Procs :
    ScoredTwoHeaders(proc[p])
      => /\ Len(findings[proc[p].scan_id]) = 2
         /\ TotalDeduction(findings[proc[p].scan_id]) >= 2 * WeightHigh
         /\ proc[p].score.val <= ScoreCeil - 2 * WeightHigh

\* C15 witness: such a scan is scored, at 50.
C15_Witness ==
  \E p \in Procs :
    /\ ScoredTwoHeaders(proc[p])
    /\ \A i \in 1..2 : findings[proc[p].scan_id][i].severity = sHigh
    /\ proc[p].score.val = 50



SeqToSet(s) == {s[i] : i \in 1..Len(s)}

\* the probes run_scan is to call on the page
ProbesDue(url) ==
  SeqToSet(PassiveOrder) \cup (IF HasParams(url) THEN SeqToSet(ActiveOrder) ELSE {})

\* C17: when a probe has raised on a page, every other probe due on the
\* page has run by the time the loop moves on, the findings the probes
\* returned are all saved, and the loop reaches the next page.
C17_OtherProbesStillRun ==
  (pg.pc = "next" /\ pg.raised # {})
    => /\ ProbesDue(pg.url) \ pg.raised \subseteq pg.ran
       /\ pg.saved = pg.returned



(***************************************************************************)
(* Properties of concurrent and repeated scans (Spec).                     *)
(***************************************************************************)
\* the call p takes the step
Steps(p) == proc'[p] # proc[p]

\* a step that changes the row or the findings of scan s is a step of a
\* call that works on s
OwnScanOnly ==
  \A s \in 1..Len(scans) :
    (scans'[s] # scans[s] \/ findings'[s] # findings[s])
      => \E p \in Procs : Steps(p) /\ proc[p].scan_id = s

\* the score a call has computed is the scoring function of the findings
\* stored under its own scan
ScoreOfOwnFindings ==
  \A p \in Procs :
    Scored(proc[p]) => proc[p].score.val = ScoreOf(findings[proc[p].scan_id])

\* C18: under every interleaving of two calls on different scans, no step
\* of one call changes the status, the score or the findings of the other
\* scan, and the score computed for a scan is that of the findings stored
\* under its own identifier.
C18_ScansIndependent == [][OwnScanOnly]_vars /\ []ScoreOfOwnFindings

\* C18 witness: two threads at work on two scans at once, one scored with
\* findings of its own, the other with different findings stored.
C18_Witness ==
  \E p, q \in Procs :
    /\ proc[p].mode = "web" /\ proc[q].mode = "web"
    /\ proc[p].scan_id # proc[q].scan_id
    /\ Scored(proc[p]) /\ findings[proc[p].scan_id] # <<>>
    /\ proc[q].pc \in {"rs_page", "rs_save_passive", "rs_active", "rs_save_active"}
    /\ findings[proc[q].scan_id] # <<>>
    /\ findings[proc[q].scan_id] # findings[proc[p].scan_id]



RunScanPcs ==
  {"rs_init", "rs_begin", "rs_crawl", "rs_page", "rs_save_passive", "rs_active",
   "rs_save_active", "rs_finish", "rs_handler", "rs_return"}

\* the call is inside run_scan and was given the identifier of a scan that
\* existed: by run_scan_thread, or by a caller for a scan of an earlier run
GivenId(l) ==
  /\ l.pc \in RunScanPcs
  /\ l.scan_id # NoScan
  /\ l.mode = "web" \/ ~l.fresh

IsPrefix(s, t) == Len(s) <= Len(t) /\ SubSeq(t, 1, Len(s)) = s

\* C19: a step of run_scan called with an existing identifier creates no
\* scan record and keeps the findings stored under the identifier, adding
\* at their end; the step of src/cli.py lines 92-93 leaves the record
\* Running; the step that completes the scan records the score of all the
\* findings stored under the identifier.
C19_ResumeKeepsRecord ==
  [][\A p \in Procs :
       (GivenId(proc[p]) /\ Steps(p))
         => LET sid == proc[p].scan_id
            IN  /\ Len(scans') = Len(scans)
                /\ IsPrefix(findings[sid], findings'[sid])
                /\ (proc[p].pc = "rs_begin" /\ proc'[p].pc = "rs_crawl")
                     => scans'[sid].status = "Running"
                /\ (proc[p].pc = "rs_finish" /\ proc'[p].pc = "rs_return")
                     => /\ scans'[sid].status = "Completed"
                        /\ scans'[sid].score = ScoreOf(findings'[sid])]_vars

\* C19 witness: a second run on a scan has completed it, the findings of
\* the first run still stored before its own, the recorded score that of
\* all of them.
C19_Witness ==
  \E p \in Procs :
    LET sid == proc[p].scan_id
    IN  /\ GivenId(proc[p]) /\ proc[p].mode = "cli" /\ proc[p].pc = "rs_return"
        /\ ~proc[p].faulted
        /\ scans[sid].status = "Completed"
        /\ Len(findings[sid]) >= 4
        /\ findings[sid][1] = findings[sid][3]
        /\ scans[sid].score = ScoreOf(findings[sid])
        /\ scans[sid].score < ScoreOf(SubSeq(findings[sid], 3, Len(findings[sid])))



(***************************************************************************)
(* Order and growth of the finding list (SpecScore).                       *)
(***************************************************************************)
Perms(n) == {g \in [1..n -> 1..n] : \A i, j \in 1..n : g[i] = g[j] => i = j}

Permute(s, g) == [i \in 1..Len(s) |-> s[g[i]]]

Swap(s, i, j) == [s EXCEPT ![i] = s[j], ![j] = s[i]]

MaxPermLen == 3

\* C20: the score returned for the rows is not exceeded by the score of the
\* rows with one more finding stored, whatever the finding; every
\* reordering of up to three rows, and of longer lists every exchange of
\* one of the leading rows with the last, gives the same score.
C20_MonotoneOrderFree ==
  score_out.bound =>
    /\ \A f \in RowPool : ScoreOf(Append(rows, f)) <= score_out.val
    /\ Len(rows) <= MaxPermLen
         => \A g \in Perms(Len(rows)) : ScoreOf(Permute(rows, g)) = score_out.val
    /\ \A i \in 1..Min(Len(rows), MaxBase + 1) :
         ScoreOf(Swap(rows, i, Len(rows))) = score_out.val

\* C20 witness: a score between the clamps was returned for rows that
\* differ from each other, and one more finding lowers it.
C20_Witness ==
  /\ score_out.bound
  /\ Len(rows) >= 3 /\ rows[1] # rows[2] /\ rows[2] # rows[3]
  /\ score_out.val > ScoreFloor /\ score_out.val < ScoreCeil
  /\ \E f \in RowPool : ScoreOf(Append(rows, f)) < score_out.val


====
